---- MODULE Spec2Model ----
(***************************************************************************)
(* Model of core/open/client.go: the open-platform client that resolves,   *)
(* caches and refreshes the component (platform) token and the authorizer  *)
(* token, and wraps the business calls that carry them.                    *)
(*                                                                         *)
(* Every exported method is one action.  A method is computed by an        *)
(* operator of the same name that threads the store through the nested     *)
(* calls exactly in the order of the source and returns                    *)
(*   [st, posts, sets, out]                                                *)
(* the store after the call, the POSTs issued (each with the transport's   *)
(* answer), the SetEx calls attempted, and what Go returns: out.val,       *)
(* out.err and out.panic (a failed type assertion aborts the call).        *)
(*                                                                         *)
(* The store (core.Cache), the transport (core.HttpClient) and the JSON    *)
(* helpers (pkg/util) are collaborators whose code is not part of          *)
(* client.go; they are modelled at their interface.                        *)
(***************************************************************************)
EXTENDS Integers, Sequences, FiniteSets, TLC

VARIABLES store, now, last, race

vars == <<store, now, last, race>>

-----------------------------------------------------------------------------
(* Bounds of the model *)

\* number of method calls in a run
MaxCalls == 2
\* number of calls in a run of ApiComponentToken alone
MaxTokenCalls == 3
\* number of clock advances in a run
MaxTicks == 2

-----------------------------------------------------------------------------
(* Program constants *)

ComponentTicketCacheKeyPrefix == "CACHE_TICKET@@"
ComponentTokenCacheKeyPrefix == "CACHE_COMPONENT@@"
AuthorizerTokenCacheKeyPrefix == "CACHE_AUTHORIZER_TOKEN@@"

\* time.Now().Unix() + 7200 : the absolute expiry stamped into a record
ExpiresInSeconds == 7200
\* the ttl argument of Cache.SetEx
CacheTtlSeconds == 7200
\* http.StatusOK
StatusOK == 200

\* the AppId of the client (Client.AppId)
AppIds == {"wxA"}
AppSecret(app) == "secret-" \o app

\* the AppIds of all the clients that share the store
Clients == {"wxA", "wxB"}

\* tenants (authorizer_appid) served by the integrator
Tenants == {"tA", "tB"}

-----------------------------------------------------------------------------
(* Go values *)

\* a nil error
NoErr == "nil"
\* a nil interface value held in a map
Nil == "<nil>"
\* a nil map[string]interface{}
NilMap == [f \in {} |-> Nil]
NoArg == "-"

\* m[f] of a Go map: the zero value (nil) when the key is absent
Lookup(m, f) == IF f \in DOMAIN m THEN m[f] ELSE Nil
\* m[f].(string) succeeds: the key is present and holds a string
IsString(m, f) == f \in DOMAIN m /\ m[f] # Nil
\* m[f].(float64) / m[f].(int64) / m[f].(map[string]interface{}) succeeds:
\* the key is present (the code never stores nil in such a field)
IsPresent(m, f) == f \in DOMAIN m
\* m[f] = v on a Go map
MapSet(m, f, v) == [g \in DOMAIN m \cup {f} |-> IF g = f THEN v ELSE m[g]]

\* json.Marshal of a map: the bytes of a JSON object
JsonMarshal(m) == [json |-> TRUE, obj |-> m]
\* bytes that are not a JSON object (an image, an empty body)
RawBytes(s) == [json |-> FALSE, raw |-> s]
\* util.JsonUnmarshalBytes: the decoded object, the nil map for other bytes
JsonUnmarshalBytes(b) == IF b.json THEN b.obj ELSE NilMap

-----------------------------------------------------------------------------
(* core.Cache *)

Prefixes == {ComponentTicketCacheKeyPrefix, ComponentTokenCacheKeyPrefix, AuthorizerTokenCacheKeyPrefix}
Keys == {p \o a : p \in Prefixes, a \in Clients}

NoRec == [present |-> FALSE]
\* deadline of a key written without expiry
NoDeadline == -1

CacheExists(st, k) == st[k].present
CacheGet(st, k) == IF st[k].present THEN [bytes |-> st[k].bytes, err |-> NoErr] ELSE [bytes |-> RawBytes(""), err |-> "NotFound"]
\* SetEx marshals the value and stores it with a ttl; ok = FALSE is a store failure
CacheSetEx(st, k, v, ttl, t, ok) == IF ok THEN [st EXCEPT ![k] = [present |-> TRUE, bytes |-> JsonMarshal(v), deadline |-> t + ttl]] ELSE st
CacheSet(st, k, v) == [st EXCEPT ![k] = [present |-> TRUE, bytes |-> JsonMarshal(v), deadline |-> NoDeadline]]

\* the record of one SetEx call
SetRec(k, v, ttl, ok) == [key |-> k, val |-> v, ttl |-> ttl, ok |-> ok]

-----------------------------------------------------------------------------
(* core.HttpClient and the platform *)

NetErr == [err |-> "transport", status |-> 0, body |-> RawBytes("")]
Status(n) == [err |-> NoErr, status |-> n, body |-> RawBytes("")]
Ok(body) == [err |-> NoErr, status |-> StatusOK, body |-> body]
ErrBody(code) == JsonMarshal([errcode |-> code, errmsg |-> "platform error"])

\* the record of one Http.Post call with the transport's answer
PostRec(ep, tok, dst, resp) == [ep |-> ep, tok |-> tok, dst |-> dst, resp |-> resp]

\* tokens issued by the platform during call number n are new
ComponentTokenOf(n) == "CT" \o ToString(n)
AccessTokenOf(tenant, n) == "AT-" \o tenant \o "-" \o ToString(n)
RefreshTokenOf(tenant, n) == "RT-" \o tenant \o "-" \o ToString(n)

\* answers to the POST of getRawApiComponentToken
MintResponses(n) == {NetErr, Status(500), Ok(ErrBody(40001)), Ok(JsonMarshal([component_access_token |-> ComponentTokenOf(n), expires_in |-> 7200]))}

\* a transport that never reports a failure
PostFailed_Never(r) == FALSE
\* the err != nil test on what Http.Post returned
PostFailed(r) == r.err # NoErr

-----------------------------------------------------------------------------
(* Results of a call *)

Out(val, err) == [val |-> val, err |-> err, panic |-> FALSE]
Panic == [val |-> Nil, err |-> NoErr, panic |-> TRUE]
Res(st, posts, sets, out) == [st |-> st, posts |-> posts, sets |-> sets, out |-> out]

-----------------------------------------------------------------------------
(* Credential lifecycle *)

\* getComponentTicket: the cached verification ticket, "" when absent
getComponentTicket(st, app) ==
  LET key == ComponentTicketCacheKeyPrefix \o app
      Then(componentVerifyTicket) ==
        IF ~CacheExists(st, key) THEN Out("", NoErr)
        ELSE IF IsString(componentVerifyTicket, "component_verify_ticket") THEN Out(componentVerifyTicket["component_verify_ticket"], NoErr)
        ELSE Panic
  IN Then(JsonUnmarshalBytes(CacheGet(st, key).bytes))

\* getRawApiComponentToken: mint a platform token and cache it
getRawApiComponentToken(st, app, t, env) ==
  LET key == ComponentTokenCacheKeyPrefix \o app
      Post(ticket, r) == <<PostRec("ComponentAccessTokenUrl", Nil,
                           [component_appid |-> app, component_appsecret |-> AppSecret(app), component_verify_ticket |-> ticket.val], r)>>
      Then(ticket, r, posts, componentToken) ==
        IF ticket.panic THEN Res(st, <<>>, <<>>, Panic)
        ELSE IF PostFailed(r) THEN Res(st, posts, <<>>, Out(NilMap, r.err))
        ELSE IF r.status # StatusOK THEN Res(st, posts, <<>>, Out(NilMap, r.err))
        ELSE Res(CacheSetEx(st, key, componentToken, CacheTtlSeconds, t, env.mintSetOk), posts,
                 <<SetRec(key, componentToken, CacheTtlSeconds, env.mintSetOk)>>, Out(componentToken, NoErr))
  IN Then(getComponentTicket(st, app), env.mint, Post(getComponentTicket(st, app), env.mint),
          MapSet(JsonUnmarshalBytes(env.mint.body), "expires_in", t + ExpiresInSeconds))

\* the two mint branches of ApiComponentToken (lines 226-231 and 240-245)
mintComponentToken(st, app, t, env) ==
  LET Then(g) ==
        IF g.out.panic THEN g
        ELSE IF g.out.err # NoErr THEN Res(g.st, g.posts, g.sets, Out("", g.out.err))
        ELSE IF IsString(g.out.val, "component_access_token")
             THEN Res(g.st, g.posts, g.sets, Out(g.out.val["component_access_token"], NoErr))
             ELSE Res(g.st, g.posts, g.sets, Panic)
  IN Then(getRawApiComponentToken(st, app, t, env))

\* a staleness test that grants one more second
IsStale_Grace(t, expiresIn) == t > expiresIn + 1
\* a staleness test that expires a record in its last second
IsStale_AtExpiry(t, expiresIn) == t >= expiresIn
\* the staleness test of a cached record (lines 152 and 239)
IsStale(t, expiresIn) == t > expiresIn

\* an ApiComponentToken that never looks at the cached record
ApiComponentToken_AlwaysMint(st, app, t, env) == mintComponentToken(st, app, t, env)
\* ApiComponentToken: the cached platform token, or a new one
ApiComponentToken(st, app, t, env) ==
  LET key == ComponentTokenCacheKeyPrefix \o app
      Then(resp, componentToken, minted) ==
        IF ~CacheExists(st, key) THEN minted
        ELSE IF resp.err # NoErr THEN Res(st, <<>>, <<>>, Out("", resp.err))
        ELSE IF ~IsPresent(componentToken, "expires_in") THEN Res(st, <<>>, <<>>, Panic)
        ELSE IF IsStale(t, componentToken["expires_in"]) THEN minted
        ELSE IF IsString(componentToken, "component_access_token")
             THEN Res(st, <<>>, <<>>, Out(componentToken["component_access_token"], NoErr))
             ELSE Res(st, <<>>, <<>>, Panic)
  IN Then(CacheGet(st, key), JsonUnmarshalBytes(CacheGet(st, key).bytes), mintComponentToken(st, app, t, env))

\* the error messages built with errors.New (glossed in English)
ErrNetwork == "network error"
ErrRegister == "register failed"
ErrOperation == "operation failed"

\* a GetToken that reads the record of the first client whatever its own AppId
GetToken_Unscoped(st, app) ==
  LET Then(resp) ==
        IF resp.err # NoErr THEN Res(st, <<>>, <<>>, Out(NilMap, resp.err))
        ELSE Res(st, <<>>, <<>>, Out(JsonUnmarshalBytes(resp.bytes), NoErr))
  IN Then(CacheGet(st, AuthorizerTokenCacheKeyPrefix \o "wxA"))
\* GetToken: the cached authorizer record
GetToken(st, app) ==
  LET Then(resp) ==
        IF resp.err # NoErr THEN Res(st, <<>>, <<>>, Out(NilMap, resp.err))
        ELSE Res(st, <<>>, <<>>, Out(JsonUnmarshalBytes(resp.bytes), NoErr))
  IN Then(CacheGet(st, AuthorizerTokenCacheKeyPrefix \o app))

\* RefreshToken: refresh the authorizer token of a tenant and merge it into the cached record
RefreshToken(st, app, t, authorizerAppId, refreshToken, env) ==
  LET key == AuthorizerTokenCacheKeyPrefix \o app
      dst == [component_appid |-> app, authorizer_appid |-> authorizerAppId, authorizer_refresh_token |-> refreshToken]
      Merge(authorizerToken, authorizerRefreshToken) ==
        MapSet(MapSet(MapSet(authorizerToken,
          "authorizer_access_token", Lookup(authorizerRefreshToken, "authorizer_access_token")),
          "authorizer_refresh_token", Lookup(authorizerRefreshToken, "authorizer_refresh_token")),
          "expires_in", t + ExpiresInSeconds)
      Save(c, r, posts, merged) ==
        Res(CacheSetEx(c.st, key, merged, CacheTtlSeconds, t, env.ownSetOk), posts,
            Append(c.sets, SetRec(key, merged, CacheTtlSeconds, env.ownSetOk)), Out(JsonUnmarshalBytes(r.body), NoErr))
      Then(resp, c, r, posts) ==
        IF resp.err # NoErr THEN Res(st, <<>>, <<>>, Out(NilMap, resp.err))
        ELSE IF c.out.panic THEN c
        ELSE IF c.out.err # NoErr THEN Res(c.st, c.posts, c.sets, Out(NilMap, c.out.err))
        ELSE IF PostFailed(r) THEN Res(c.st, posts, c.sets, Out(NilMap, r.err))
        ELSE IF r.status # StatusOK THEN Res(c.st, posts, c.sets, Out(NilMap, ErrNetwork))
        ELSE Save(c, r, posts, Merge(JsonUnmarshalBytes(resp.bytes), JsonUnmarshalBytes(r.body)))
      With(resp, c, r) == Then(resp, c, r, Append(c.posts, PostRec("ApiAuthorizerToken", c.out.val, dst, r)))
  IN With(CacheGet(st, key), ApiComponentToken(st, app, t, env), env.own)

\* ApiCreatePreAuthCode: issue a pre-authorization code
ApiCreatePreAuthCode(st, app, t, env) ==
  LET dst == [component_appid |-> app]
      Then(c, r, posts, resp) ==
        IF c.out.panic THEN c
        ELSE IF c.out.err # NoErr THEN Res(c.st, c.posts, c.sets, Out("", c.out.err))
        ELSE IF PostFailed(r) THEN Res(c.st, posts, c.sets, Out("", r.err))
        ELSE IF r.status # StatusOK THEN Res(c.st, posts, c.sets, Out("", ErrNetwork))
        ELSE IF IsString(resp, "pre_auth_code") THEN Res(c.st, posts, c.sets, Out(resp["pre_auth_code"], NoErr))
        ELSE Res(c.st, posts, c.sets, Panic)
      With(c, r) == Then(c, r, Append(c.posts, PostRec("PreAuthCodoUrl", c.out.val, dst, r)), JsonUnmarshalBytes(r.body))
  IN With(ApiComponentToken(st, app, t, env), env.own)

\* url.QueryEscape on the strings of the model: letters, digits and "-" are kept,
\* ":" becomes %3A and "/" becomes %2F
QueryEscape(s) == IF s = "https://cb" THEN "https%3A%2F%2Fcb" ELSE s

\* the format of the consent page address (fmt.Sprintf, lines 59-63)
AuthUrl(app, preAuthCode, redirectUri, authType) ==
  "https://mp.weixin.qq.com/cgi-bin/componentloginpage?component_appid=" \o QueryEscape(app)
    \o "&pre_auth_code=" \o QueryEscape(preAuthCode)
    \o "&redirect_uri=" \o QueryEscape(redirectUri)
    \o "&auth_type=" \o ToString(authType)

\* GetAuthUrl: the address of the consent page, "" when no code could be issued
GetAuthUrl(st, app, t, redirectUri, authType, env) ==
  LET Then(p) ==
        IF p.out.panic THEN p
        ELSE IF p.out.err # NoErr THEN Res(p.st, p.posts, p.sets, Out("", NoErr))
        ELSE Res(p.st, p.posts, p.sets, Out(AuthUrl(app, p.out.val, redirectUri, authType), NoErr))
  IN Then(ApiCreatePreAuthCode(st, app, t, env))

\* getRawApiQueryAuth: exchange an authorization code and cache the authorization info
getRawApiQueryAuth(st, app, t, code, env) ==
  LET dst == [component_appid |-> app, authorization_code |-> code]
      key == AuthorizerTokenCacheKeyPrefix \o app
      Save(c, r, posts, authorzationInfo) ==
        IF ~env.ownSetOk
        THEN Res(c.st, posts, Append(c.sets, SetRec(key, authorzationInfo, CacheTtlSeconds, FALSE)), Out(NilMap, "CacheError"))
        ELSE Res(CacheSetEx(c.st, key, authorzationInfo, CacheTtlSeconds, t, TRUE), posts,
                 Append(c.sets, SetRec(key, authorzationInfo, CacheTtlSeconds, TRUE)), Out(JsonUnmarshalBytes(r.body), NoErr))
      Then(c, r, posts, authorizerToken) ==
        IF c.out.panic THEN c
        ELSE IF c.out.err # NoErr THEN Res(c.st, c.posts, c.sets, Out(NilMap, c.out.err))
        ELSE IF PostFailed(r) THEN Res(c.st, posts, c.sets, Out(NilMap, r.err))
        ELSE IF r.status # StatusOK THEN Res(c.st, posts, c.sets, Out(NilMap, ErrNetwork))
        ELSE IF ~IsPresent(authorizerToken, "authorization_info") THEN Res(c.st, posts, c.sets, Panic)
        ELSE Save(c, r, posts, MapSet(authorizerToken["authorization_info"], "expires_in", t + ExpiresInSeconds))
      With(c, r) == Then(c, r, Append(c.posts, PostRec("ApiQueryAuth", c.out.val, dst, r)), JsonUnmarshalBytes(r.body))
  IN With(ApiComponentToken(st, app, t, env), env.own)

\* ApiQueryAuth: the cached authorizer record, or a new exchange of the code
ApiQueryAuth(st, app, t, code, env) ==
  LET key == AuthorizerTokenCacheKeyPrefix \o app
      Then(resp, authorizerToken, exchanged) ==
        IF ~CacheExists(st, key) THEN exchanged
        ELSE IF resp.err # NoErr THEN Res(st, <<>>, <<>>, Out(NilMap, resp.err))
        ELSE IF ~IsPresent(authorizerToken, "expires_in") THEN Res(st, <<>>, <<>>, Panic)
        ELSE IF IsStale(t, authorizerToken["expires_in"]) THEN exchanged
        ELSE Res(st, <<>>, <<>>, Out(authorizerToken, NoErr))
  IN Then(CacheGet(st, key), JsonUnmarshalBytes(CacheGet(st, key).bytes), getRawApiQueryAuth(st, app, t, code, env))

\* ApiAuthorizerInfo: the profile of a tenant
ApiAuthorizerInfo(st, app, t, authorizerAppId, env) ==
  LET dst == [component_appid |-> app, authorizer_appid |-> authorizerAppId]
      Then(c, r, posts, authorizerToken) ==
        IF c.out.panic THEN c
        ELSE IF c.out.err # NoErr THEN Res(c.st, c.posts, c.sets, Out(NilMap, c.out.err))
        ELSE IF PostFailed(r) THEN Res(c.st, posts, c.sets, Out(NilMap, r.err))
        ELSE IF r.status # StatusOK THEN Res(c.st, posts, c.sets, Out(NilMap, ErrNetwork))
        ELSE IF IsPresent(authorizerToken, "authorizer_info") THEN Res(c.st, posts, c.sets, Out(authorizerToken["authorizer_info"], NoErr))
        ELSE Res(c.st, posts, c.sets, Panic)
      With(c, r) == Then(c, r, Append(c.posts, PostRec("ApiAuthorizerInfo", c.out.val, dst, r)), JsonUnmarshalBytes(r.body))
  IN With(ApiComponentToken(st, app, t, env), env.own)

-----------------------------------------------------------------------------
(* Business calls *)

\* a business call that posts whether or not the platform token was resolved
componentCall_PostAnyway(st, app, t, ep, failMsg, data, env) ==
  LET Then(c, r) == Res(c.st, Append(c.posts, PostRec(ep, c.out.val, data, r)), c.sets, Out(Nil, NoErr))
  IN Then(ApiComponentToken(st, app, t, env), env.own)

\* the business calls made with the platform token share one body: resolve the
\* token, POST to ep, errors.New(failMsg) when errcode is not 0
componentCall(st, app, t, ep, failMsg, data, env) ==
  LET Then(c, r, posts, resp) ==
        IF c.out.panic THEN c
        ELSE IF c.out.err # NoErr THEN Res(c.st, c.posts, c.sets, Out(Nil, c.out.err))
        ELSE IF PostFailed(r) THEN Res(c.st, posts, c.sets, Out(Nil, r.err))
        ELSE IF r.status # StatusOK THEN Res(c.st, posts, c.sets, Out(Nil, ErrNetwork))
        ELSE IF ~IsPresent(resp, "errcode") THEN Res(c.st, posts, c.sets, Panic)
        ELSE IF resp["errcode"] # 0 THEN Res(c.st, posts, c.sets, Out(Nil, failMsg))
        ELSE Res(c.st, posts, c.sets, Out(Nil, NoErr))
      With(c, r) == Then(c, r, Append(c.posts, PostRec(ep, c.out.val, data, r)), JsonUnmarshalBytes(r.body))
  IN With(ApiComponentToken(st, app, t, env), env.own)

FastRegisterWeapp(st, app, t, data, env) == componentCall(st, app, t, "FastRegisterWeapp", ErrRegister, data, env)
ModifyDomain(st, app, t, data, env) == componentCall(st, app, t, "ModifyDomain", ErrOperation, data, env)
CommitCode(st, app, t, data, env) == componentCall(st, app, t, "CommitCode", ErrOperation, data, env)
SubmitAudit(st, app, t, data, env) == componentCall(st, app, t, "SubmitAudit", ErrOperation, data, env)
\* posts to Endpoint.SubmitAudit (line 420)
UndoCodeAudit(st, app, t, data, env) == componentCall(st, app, t, "SubmitAudit", ErrOperation, data, env)
Release(st, app, t, data, env) == componentCall(st, app, t, "Release", ErrOperation, data, env)

\* BindTester: bind a tester account with the authorizer access token
BindTester(st, app, t, wechatId, env) ==
  LET dst == [wechatid |-> wechatId]
      Then(token, r, posts, resp) ==
        IF token.out.err # NoErr THEN Res(st, <<>>, <<>>, Out(Nil, token.out.err))
        ELSE IF ~IsString(token.out.val, "authorizer_access_token") THEN Res(st, <<>>, <<>>, Panic)
        ELSE IF PostFailed(r) THEN Res(st, posts, <<>>, Out(Nil, r.err))
        ELSE IF r.status # StatusOK THEN Res(st, posts, <<>>, Out(Nil, ErrNetwork))
        ELSE IF ~IsPresent(resp, "errcode") THEN Res(st, posts, <<>>, Panic)
        ELSE IF resp["errcode"] # 0 THEN Res(st, posts, <<>>, Out(Nil, ErrOperation))
        ELSE Res(st, posts, <<>>, Out(Nil, NoErr))
      With(token, r) == Then(token, r, <<PostRec("BindTester", token.out.val["authorizer_access_token"], dst, r)>>, JsonUnmarshalBytes(r.body))
  IN With(GetToken(st, app), env.own)

\* GetWxaCode: the code image of a mini program
GetWxaCode(st, app, t, data, env) ==
  LET Then(token, r, posts, resp) ==
        IF token.out.err # NoErr THEN Res(st, <<>>, <<>>, Out(Nil, token.out.err))
        ELSE IF ~IsString(token.out.val, "authorizer_access_token") THEN Res(st, <<>>, <<>>, Panic)
        ELSE IF PostFailed(r) THEN Res(st, posts, <<>>, Out(Nil, r.err))
        ELSE IF r.status # StatusOK THEN Res(st, posts, <<>>, Out(Nil, ErrNetwork))
        ELSE IF IsPresent(resp, "errcode") THEN Res(st, posts, <<>>, Out(Nil, ErrOperation))
        ELSE Res(st, posts, <<>>, Out(r.body, NoErr))
      With(token, r) == Then(token, r, <<PostRec("GetWxaCode", token.out.val["authorizer_access_token"], data, r)>>, JsonUnmarshalBytes(r.body))
  IN With(GetToken(st, app), env.own)

-----------------------------------------------------------------------------
(* State machine *)

\* what a call keeps of an ApiComponentToken call that returned right before it
\* (no step of the clock or of the store in between): its client, result, POSTs
\* and the store it found
NoBefore == [op |-> "none", app |-> NoArg, out |-> Out(Nil, NoErr), posts |-> <<>>, pre |-> [k \in Keys |-> NoRec]]
Before(l) == IF l.op = "ApiComponentToken" THEN [op |-> l.op, app |-> l.app, out |-> l.out, posts |-> l.posts, pre |-> l.pre] ELSE NoBefore

NoCall == [seq |-> 0, op |-> "none", app |-> NoArg, arg |-> NoArg, t |-> 0, pre |-> [k \in Keys |-> NoRec],
           posts |-> <<>>, sets |-> <<>>, out |-> Out(Nil, NoErr), before |-> NoBefore]

\* last is the observation of the call that has just returned; a step of the
\* clock or of the store ends the observation
Idle(l) == [NoCall EXCEPT !.seq = l.seq]

\* two goroutines that call ApiComponentToken of one client at the same time:
\* where each is in the method (pc), the number of its call (n), what its
\* staleness check observed (obs) after how many writes (w0), the ticket and the
\* decoded answer it holds, whether it has issued its POST, and its result;
\* writes is the log of the SetEx calls on the platform-token key
Procs == {1, 2}
NoProc == [pc |-> "idle", n |-> 0, obs |-> "none", w0 |-> 0, ticket |-> "", body |-> NilMap, posted |-> FALSE, wrote |-> FALSE, out |-> Out(Nil, NoErr)]
NoRace == [proc |-> [p \in Procs |-> NoProc], writes |-> <<>>]

Init ==
  /\ store = [k \in Keys |-> NoRec]
  /\ now = 0
  /\ last = NoCall
  /\ race = NoRace

\* An answer of a collaborator that the call did not ask for is not part of the
\* step: such an answer is fixed, so that one run of the method is one step.
Seen(env, app, r) ==
  /\ (\E i \in DOMAIN r.posts : r.posts[i].resp = env.mint /\ r.posts[i].ep = "ComponentAccessTokenUrl") \/ env.mint = NetErr
  /\ (\E i \in DOMAIN r.sets : r.sets[i].key = ComponentTokenCacheKeyPrefix \o app) \/ env.mintSetOk
  /\ (\E i \in DOMAIN r.posts : r.posts[i].ep # "ComponentAccessTokenUrl") \/ env.own = NetErr
  /\ (\E i \in DOMAIN r.sets : r.sets[i].key = AuthorizerTokenCacheKeyPrefix \o app) \/ env.ownSetOk

\* the call numbered last.seq + 1, of at most N, returns with result r
Call(N, op, app, arg, env, r) ==
  /\ last.seq < N
  /\ Seen(env, app, r)
  /\ store' = r.st
  /\ last' = [seq |-> last.seq + 1, op |-> op, app |-> app, arg |-> arg, t |-> now, pre |-> store,
              posts |-> r.posts, sets |-> r.sets, out |-> r.out, before |-> Before(last)]
  /\ UNCHANGED <<now, race>>

\* the arguments the callers pass
CodeOf(tenant) == "code-" \o tenant
Codes == {CodeOf(tn) : tn \in Tenants}
RefreshArgs == {"", "RT-held"}
Data == [action |-> "set"]
WechatIds == {"tester"}
RedirectUris == {"https://cb"}
AuthTypes == {1}

\* answers of the platform to the POST of each method, during call number n
PreAuthResponses(n) == {NetErr, Status(500), Ok(ErrBody(61004)), Ok(JsonMarshal([pre_auth_code |-> "PAC" \o ToString(n), expires_in |-> 600]))}
AuthorizationInfo(tenant, n) == [authorizer_appid |-> tenant, authorizer_access_token |-> AccessTokenOf(tenant, n),
                                 authorizer_refresh_token |-> RefreshTokenOf(tenant, n), expires_in |-> 7200]
QueryAuthResponses(tenant, n) == {NetErr, Status(500), Ok(ErrBody(61010)), Ok(JsonMarshal([authorization_info |-> AuthorizationInfo(tenant, n)]))}
RefreshResponses(tenant, n) == {NetErr, Status(500), Ok(ErrBody(61023)),
                                Ok(JsonMarshal([authorizer_access_token |-> AccessTokenOf(tenant, n), authorizer_refresh_token |-> RefreshTokenOf(tenant, n), expires_in |-> 7200]))}
AuthorizerInfoResponses == {NetErr, Status(500), Ok(ErrBody(61003)), Ok(JsonMarshal([authorizer_info |-> [nick_name |-> "shop"]]))}
BusinessResponses == {NetErr, Status(500), Ok(ErrBody(0)), Ok(ErrBody(40001))}
WxaCodeResponses == {NetErr, Status(500), Ok(ErrBody(0)), Ok(ErrBody(40001)), Ok(RawBytes("png"))}

\* what the collaborators answer during one call: the transport to the mint POST
\* and to the method's own POST, the store to the SetEx of each
NoEnv == [mint |-> NetErr, mintSetOk |-> TRUE, own |-> NetErr, ownSetOk |-> TRUE]
Envs(F, n, own, ownSetOks) == [mint : MintResponses(n), mintSetOk : F, own : own, ownSetOk : ownSetOks]
\* the store accepts every write
StoreOk == {TRUE}

CallApiComponentToken(N, F) ==
  \E app \in AppIds : \E env \in Envs(F, last.seq + 1, {NetErr}, {TRUE}) :
    Call(N, "ApiComponentToken", app, NoArg, env, ApiComponentToken(store, app, now, env))

CallGetToken(N, F) ==
  \E app \in AppIds : Call(N, "GetToken", app, NoArg, NoEnv, GetToken(store, app))

CallRefreshToken(N, F) ==
  \E app \in AppIds, tn \in Tenants, rt \in RefreshArgs : \E env \in Envs(F, last.seq + 1, RefreshResponses(tn, last.seq + 1), F) :
    Call(N, "RefreshToken", app, <<tn, rt>>, env, RefreshToken(store, app, now, tn, rt, env))

CallApiCreatePreAuthCode(N, F) ==
  \E app \in AppIds : \E env \in Envs(F, last.seq + 1, PreAuthResponses(last.seq + 1), {TRUE}) :
    Call(N, "ApiCreatePreAuthCode", app, NoArg, env, ApiCreatePreAuthCode(store, app, now, env))

CallGetAuthUrl(N, F) ==
  \E app \in AppIds, uri \in RedirectUris, ty \in AuthTypes : \E env \in Envs(F, last.seq + 1, PreAuthResponses(last.seq + 1), {TRUE}) :
    Call(N, "GetAuthUrl", app, <<uri, ty>>, env, GetAuthUrl(store, app, now, uri, ty, env))

CallApiQueryAuth(N, F) ==
  \E app \in AppIds, tn \in Tenants : \E env \in Envs(F, last.seq + 1, QueryAuthResponses(tn, last.seq + 1), F) :
    Call(N, "ApiQueryAuth", app, CodeOf(tn), env, ApiQueryAuth(store, app, now, CodeOf(tn), env))

CallApiAuthorizerInfo(N, F) ==
  \E app \in AppIds, tn \in Tenants : \E env \in Envs(F, last.seq + 1, AuthorizerInfoResponses, {TRUE}) :
    Call(N, "ApiAuthorizerInfo", app, tn, env, ApiAuthorizerInfo(store, app, now, tn, env))

CallFastRegisterWeapp(N, F) ==
  \E app \in AppIds : \E env \in Envs(F, last.seq + 1, BusinessResponses, {TRUE}) :
    Call(N, "FastRegisterWeapp", app, Data, env, FastRegisterWeapp(store, app, now, Data, env))

CallModifyDomain(N, F) ==
  \E app \in AppIds : \E env \in Envs(F, last.seq + 1, BusinessResponses, {TRUE}) :
    Call(N, "ModifyDomain", app, Data, env, ModifyDomain(store, app, now, Data, env))

CallCommitCode(N, F) ==
  \E app \in AppIds : \E env \in Envs(F, last.seq + 1, BusinessResponses, {TRUE}) :
    Call(N, "CommitCode", app, Data, env, CommitCode(store, app, now, Data, env))

CallSubmitAudit(N, F) ==
  \E app \in AppIds : \E env \in Envs(F, last.seq + 1, BusinessResponses, {TRUE}) :
    Call(N, "SubmitAudit", app, Data, env, SubmitAudit(store, app, now, Data, env))

CallUndoCodeAudit(N, F) ==
  \E app \in AppIds : \E env \in Envs(F, last.seq + 1, BusinessResponses, {TRUE}) :
    Call(N, "UndoCodeAudit", app, Data, env, UndoCodeAudit(store, app, now, Data, env))

CallRelease(N, F) ==
  \E app \in AppIds : \E env \in Envs(F, last.seq + 1, BusinessResponses, {TRUE}) :
    Call(N, "Release", app, Data, env, Release(store, app, now, Data, env))

CallBindTester(N, F) ==
  \E app \in AppIds, w \in WechatIds : \E env \in Envs(F, last.seq + 1, BusinessResponses, {TRUE}) :
    Call(N, "BindTester", app, w, env, BindTester(store, app, now, w, env))

CallGetWxaCode(N, F) ==
  \E app \in AppIds : \E env \in Envs(F, last.seq + 1, WxaCodeResponses, {TRUE}) :
    Call(N, "GetWxaCode", app, Data, env, GetWxaCode(store, app, now, Data, env))

\* the clock of the process advances
TickSteps == {1, ExpiresInSeconds}
\* the number of advances that led to the time t
TicksOf(t) == (t \div ExpiresInSeconds) + (t % ExpiresInSeconds)
Tick ==
  /\ TicksOf(now) < MaxTicks
  /\ \E d \in TickSteps : now' = now + d
  /\ last' = Idle(last)
  /\ UNCHANGED <<store, race>>

\* the store drops a key whose ttl has run out; the store keeps its own time,
\* so a key may outlive its deadline on the clock of the process
Evict ==
  \E k \in Keys :
    /\ store[k].present
    /\ store[k].deadline # NoDeadline
    /\ now >= store[k].deadline
    /\ store' = [store EXCEPT ![k] = NoRec]
    /\ last' = Idle(last)
    /\ UNCHANGED <<now, race>>

\* the platform pushes a verification ticket, which the receiver caches
PushTicketTo(apps) ==
  \E app \in apps :
    /\ ~store[ComponentTicketCacheKeyPrefix \o app].present
    /\ store' = CacheSet(store, ComponentTicketCacheKeyPrefix \o app, [component_verify_ticket |-> "ticket-1"])
    /\ last' = Idle(last)
    /\ UNCHANGED <<now, race>>
PushTicket == PushTicketTo(AppIds)

Environment ==
  \/ Tick
  \/ Evict
  \/ PushTicket

\* the credential lifecycle: the resolvers and the methods built on them
Next ==
  \/ CallApiComponentToken(MaxCalls, StoreOk)
  \/ CallGetToken(MaxCalls, StoreOk)
  \/ CallRefreshToken(MaxCalls, StoreOk)
  \/ CallApiCreatePreAuthCode(MaxCalls, StoreOk)
  \/ CallGetAuthUrl(MaxCalls, StoreOk)
  \/ CallApiQueryAuth(MaxCalls, StoreOk)
  \/ CallApiAuthorizerInfo(MaxCalls, StoreOk)
  \/ Environment

Spec == Init /\ [][Next]_vars

\* the business calls, after an exchange that caches the authorizer record
NextGateway ==
  \/ CallApiQueryAuth(MaxCalls, StoreOk)
  \/ CallGetToken(MaxCalls, StoreOk)
  \/ CallFastRegisterWeapp(MaxCalls, StoreOk)
  \/ CallModifyDomain(MaxCalls, StoreOk)
  \/ CallCommitCode(MaxCalls, StoreOk)
  \/ CallSubmitAudit(MaxCalls, StoreOk)
  \/ CallUndoCodeAudit(MaxCalls, StoreOk)
  \/ CallRelease(MaxCalls, StoreOk)
  \/ CallBindTester(MaxCalls, StoreOk)
  \/ CallGetWxaCode(MaxCalls, StoreOk)
  \/ Environment

SpecGateway == Init /\ [][NextGateway]_vars

\* repeated calls of ApiComponentToken alone
NextToken ==
  \/ CallApiComponentToken(MaxTokenCalls, StoreOk)
  \/ Environment

SpecToken == Init /\ [][NextToken]_vars

-----------------------------------------------------------------------------
(* What a state shows of the call that has just returned *)

CompKey(app) == ComponentTokenCacheKeyPrefix \o app
AuthKey(app) == AuthorizerTokenCacheKeyPrefix \o app
HasRec(st, k) == st[k].present
RecOf(st, k) == JsonUnmarshalBytes(st[k].bytes)
ExpiryOf(st, k) == RecOf(st, k)["expires_in"]

MintEp == "ComponentAccessTokenUrl"
ExchangeEp == "ApiQueryAuth"
RefreshEp == "ApiAuthorizerToken"
PostsTo(posts, ep) == {i \in DOMAIN posts : posts[i].ep = ep}
NPosts(posts, ep) == Cardinality(PostsTo(posts, ep))

\* the call returned a value and a nil error
Resolved(out) == ~out.panic /\ out.err = NoErr
\* the platform token cached before the call, nil when there is none
CachedToken(l) == IF HasRec(l.pre, CompKey(l.app)) THEN Lookup(RecOf(l.pre, CompKey(l.app)), "component_access_token") ELSE Nil
\* the token in the answer to the mint POST of the call
MintedToken(l) == Lookup(JsonUnmarshalBytes(l.posts[1].resp.body), "component_access_token")

-----------------------------------------------------------------------------
(* Properties *)

\* C1: ApiComponentToken never hands out a platform token past its recorded
\* expiry.  When the cached record has expires_in < now the call issues exactly
\* one POST to the platform-token endpoint, and a token it returns is the one
\* minted by that POST, not the cached one; a token is returned without a mint
\* only from a cached record with now <= expires_in.
C1_NoStalePlatformToken ==
  last.op = "ApiComponentToken" =>
    /\ (HasRec(last.pre, CompKey(last.app)) /\ ExpiryOf(last.pre, CompKey(last.app)) < last.t) =>
         /\ NPosts(last.posts, MintEp) = 1
         /\ Resolved(last.out) => (last.out.val = MintedToken(last) /\ last.out.val # CachedToken(last))
    /\ (Resolved(last.out) /\ NPosts(last.posts, MintEp) = 0) =>
         /\ HasRec(last.pre, CompKey(last.app))
         /\ last.t <= ExpiryOf(last.pre, CompKey(last.app))
         /\ last.out.val = CachedToken(last)

\* a call that found an expired record holding a token and returned a new token
C1_Witness ==
  /\ last.op = "ApiComponentToken"
  /\ HasRec(last.pre, CompKey(last.app))
  /\ ExpiryOf(last.pre, CompKey(last.app)) < last.t
  /\ CachedToken(last) # Nil
  /\ Resolved(last.out)
  /\ last.out.val = MintedToken(last)

\* C5: the staleness test of ApiComponentToken and ApiQueryAuth is strictly
\* now > expires_in.  A cached record with expires_in = now is still valid: no
\* POST, no store write, and the cached token (ApiComponentToken, when the record
\* holds one) or record (ApiQueryAuth) is returned.  A record with
\* expires_in = now - 1 is stale: ApiComponentToken issues one mint POST, and
\* ApiQueryAuth does not answer from the cache (it returns only after exactly one
\* POST to the exchange endpoint).
C5_StrictStaleness ==
  /\ (last.op = "ApiComponentToken" /\ HasRec(last.pre, CompKey(last.app))) =>
       /\ ExpiryOf(last.pre, CompKey(last.app)) = last.t =>
            /\ last.posts = <<>>
            /\ last.sets = <<>>
            /\ CachedToken(last) # Nil => (Resolved(last.out) /\ last.out.val = CachedToken(last))
       /\ ExpiryOf(last.pre, CompKey(last.app)) = last.t - 1 => NPosts(last.posts, MintEp) = 1
  /\ (last.op = "ApiQueryAuth" /\ HasRec(last.pre, AuthKey(last.app))) =>
       /\ ExpiryOf(last.pre, AuthKey(last.app)) = last.t =>
            /\ last.posts = <<>>
            /\ last.sets = <<>>
            /\ Resolved(last.out)
            /\ last.out.val = RecOf(last.pre, AuthKey(last.app))
       /\ ExpiryOf(last.pre, AuthKey(last.app)) = last.t - 1 =>
            /\ NPosts(last.posts, ExchangeEp) <= 1
            /\ Resolved(last.out) => NPosts(last.posts, ExchangeEp) = 1

\* a call of ApiComponentToken in the very second the cached token expires
C5_Witness ==
  /\ last.op = "ApiComponentToken"
  /\ HasRec(last.pre, CompKey(last.app))
  /\ ExpiryOf(last.pre, CompKey(last.app)) = last.t
  /\ Resolved(last.out)
  /\ last.out.val = CachedToken(last)

\* C6: ApiComponentToken is idempotent on a cached record that is not stale: of
\* two calls in immediate succession (same time, nothing else touching the
\* store) the second returns what the first returned, neither issues a POST, and
\* the store after both is the store before both.
C6_Idempotent ==
  (/\ last.op = "ApiComponentToken"
   /\ last.before.op = "ApiComponentToken"
   /\ last.before.app = last.app
   /\ HasRec(last.before.pre, CompKey(last.app))
   /\ last.t <= ExpiryOf(last.before.pre, CompKey(last.app))) =>
     /\ last.out = last.before.out
     /\ last.before.posts = <<>>
     /\ last.posts = <<>>
     /\ last.sets = <<>>
     /\ last.pre = last.before.pre
     /\ store = last.before.pre

\* the second of two successive calls, both answered with the cached token
C6_Witness ==
  /\ last.op = "ApiComponentToken"
  /\ last.before.op = "ApiComponentToken"
  /\ HasRec(last.before.pre, CompKey(last.app))
  /\ last.t <= ExpiryOf(last.before.pre, CompKey(last.app))
  /\ Resolved(last.out)
  /\ last.out.val = CachedToken(last)
  /\ last.out.val = last.before.out.val

-----------------------------------------------------------------------------
(* Further observations *)

TicketKey(app) == ComponentTicketCacheKeyPrefix \o app
Resolvers == {"ApiComponentToken", "RefreshToken", "ApiQueryAuth"}
MintEps == {MintEp, ExchangeEp, RefreshEp}
\* the key of the credential a resolver manages, and the endpoint it mints from
OwnKey(l) == IF l.op = "ApiComponentToken" THEN CompKey(l.app) ELSE AuthKey(l.app)
OwnEp(l) == IF l.op = "ApiComponentToken" THEN MintEp ELSE IF l.op = "RefreshToken" THEN RefreshEp ELSE ExchangeEp
\* the authorizer access token cached before the call, nil when there is none
CachedAccessToken(l) == IF HasRec(l.pre, AuthKey(l.app)) THEN Lookup(RecOf(l.pre, AuthKey(l.app)), "authorizer_access_token") ELSE Nil
\* the last POST of the call
LastPost(l) == l.posts[Len(l.posts)]

\* C2: on the paths that return the authorizer record or use its access token
\* (GetToken, ApiQueryAuth, BindTester, GetWxaCode), a cached record with
\* now > expires_in is neither returned to the caller nor used: no POST of the
\* call carries the access token of the expired record.
C2_NoExpiredAuthorizerToken ==
  (/\ last.op \in {"GetToken", "ApiQueryAuth", "BindTester", "GetWxaCode"}
   /\ HasRec(last.pre, AuthKey(last.app))
   /\ last.t > ExpiryOf(last.pre, AuthKey(last.app))) =>
     /\ ~(Resolved(last.out) /\ last.out.val = RecOf(last.pre, AuthKey(last.app)))
     /\ \A i \in DOMAIN last.posts : last.posts[i].tok # CachedAccessToken(last)

\* C3: every resolver (ApiComponentToken, RefreshToken, ApiQueryAuth) that
\* finds a cached record of its credential with expires_in > now returns the
\* cached value unchanged, issues no POST and writes nothing to the store.
C3_AllResolversServeFromCache ==
  (/\ last.op \in Resolvers
   /\ HasRec(last.pre, OwnKey(last))
   /\ ExpiryOf(last.pre, OwnKey(last)) > last.t) =>
     /\ last.posts = <<>>
     /\ last.sets = <<>>
     /\ store = last.pre
     /\ Resolved(last.out)
     /\ last.out.val = (IF last.op = "ApiComponentToken" THEN CachedToken(last) ELSE RecOf(last.pre, AuthKey(last.app)))

\* C4: every resolver that finds no record of its credential, or a record with
\* expires_in <= now, and whose POSTs are all answered 200, issues exactly one
\* POST to its mint/refresh endpoint and leaves in the store a record with
\* expires_in = time of the call + 7200.
C4_MintWhenMissingOrExpired ==
  (/\ last.op \in Resolvers
   /\ ~HasRec(last.pre, OwnKey(last)) \/ ExpiryOf(last.pre, OwnKey(last)) <= last.t
   /\ \A i \in DOMAIN last.posts : last.posts[i].resp.err = NoErr /\ last.posts[i].resp.status = StatusOK) =>
     /\ NPosts(last.posts, OwnEp(last)) = 1
     /\ HasRec(store, OwnKey(last))
     /\ ExpiryOf(store, OwnKey(last)) = last.t + ExpiresInSeconds

\* C7: a resolver one of whose mint/refresh POSTs is answered with a status
\* other than 200 returns a non-nil error (it does not abort and does not report
\* success), and the call writes nothing to the store.
C7_Non200IsAnError ==
  (/\ last.op \in Resolvers
   /\ \E i \in DOMAIN last.posts :
        /\ last.posts[i].ep \in MintEps
        /\ last.posts[i].resp.err = NoErr
        /\ last.posts[i].resp.status # StatusOK) =>
     /\ ~last.out.panic
     /\ last.out.err # NoErr
     /\ last.sets = <<>>
     /\ store = last.pre

\* C8: a transport error on a mint/refresh POST of a resolver ends
\* the call, which returns that error; nothing is written for the failed POST.
\* The record of the resolver's own credential and the ticket are left as they
\* were; the only write the call can have made is the platform-token record
\* cached by a nested mint that succeeded before the failed POST, and when the
\* first POST of the call fails the store is exactly as before.
C8_TransportErrorNoWrite ==
  (/\ last.op \in Resolvers
   /\ \E i \in DOMAIN last.posts : last.posts[i].ep \in MintEps /\ last.posts[i].resp.err # NoErr) =>
     /\ ~last.out.panic
     /\ last.out.err = LastPost(last).resp.err
     /\ last.out.err # NoErr
     /\ \A i \in DOMAIN last.posts : last.posts[i].resp.err # NoErr => i = Len(last.posts)
     /\ \A j \in DOMAIN last.sets : last.sets[j].key = CompKey(last.app) /\ last.op # "ApiComponentToken"
     /\ \A k \in Keys : k # CompKey(last.app) => store[k] = last.pre[k]
     /\ last.posts[1].resp.err # NoErr => (last.sets = <<>> /\ store = last.pre)

\* an exchange whose nested mint succeeded and whose own POST met a transport error
C8_Witness ==
  /\ last.op = "ApiQueryAuth"
  /\ Len(last.posts) = 2
  /\ last.posts[1].ep = MintEp
  /\ last.posts[2].ep = ExchangeEp
  /\ last.posts[2].resp.err # NoErr
  /\ last.out.err = last.posts[2].resp.err
  /\ store[CompKey(last.app)] # last.pre[CompKey(last.app)]
  /\ store[AuthKey(last.app)] = last.pre[AuthKey(last.app)]

\* C8, as first stated: a transport error on a mint/refresh POST of a resolver
\* is returned as an error, and the store after the call is exactly the store
\* before it.
C8_TransportErrorStoreUntouched ==
  (/\ last.op \in Resolvers
   /\ \E i \in DOMAIN last.posts : last.posts[i].ep \in MintEps /\ last.posts[i].resp.err # NoErr) =>
     /\ ~last.out.panic
     /\ last.out.err # NoErr
     /\ store = last.pre

Gateways == {"FastRegisterWeapp", "BindTester", "ModifyDomain", "CommitCode", "SubmitAudit", "UndoCodeAudit", "Release", "GetWxaCode"}
\* an error value that carries the business error code of the response
BusinessError(code) == "errcode " \o ToString(code)

\* C9: a gateway call whose own POST is answered 200 returns an error carrying
\* the business error code of the response when that code is not zero, and
\* reports success when the code is zero or, for a body without errcode, absent.
C9_BusinessErrorCarriesCode ==
  (/\ last.op \in Gateways
   /\ last.posts # <<>>
   /\ LastPost(last).ep # MintEp
   /\ LastPost(last).resp.err = NoErr
   /\ LastPost(last).resp.status = StatusOK) =>
     IF /\ IsPresent(JsonUnmarshalBytes(LastPost(last).resp.body), "errcode")
        /\ JsonUnmarshalBytes(LastPost(last).resp.body)["errcode"] # 0
     THEN ~last.out.panic /\ last.out.err = BusinessError(JsonUnmarshalBytes(LastPost(last).resp.body)["errcode"])
     ELSE Resolved(last.out)

\* the pre-authorization code issued during the call, nil when none was issued
IssuedCode(l) ==
  IF /\ l.posts # <<>>
     /\ LastPost(l).ep = "PreAuthCodoUrl"
     /\ LastPost(l).resp.err = NoErr
     /\ LastPost(l).resp.status = StatusOK
  THEN Lookup(JsonUnmarshalBytes(LastPost(l).resp.body), "pre_auth_code")
  ELSE Nil

\* C10: GetAuthUrl never aborts and never returns an error; it returns the
\* empty string when no pre-authorization code was issued (whatever the reason)
\* and the full consent address built on the issued code otherwise.
C10_GetAuthUrlNeverAborts ==
  last.op = "GetAuthUrl" =>
    /\ ~last.out.panic
    /\ last.out.err = NoErr
    /\ last.out.val = (IF IssuedCode(last) = Nil THEN "" ELSE AuthUrl(last.app, IssuedCode(last), last.arg[1], last.arg[2]))

-----------------------------------------------------------------------------
(* Concurrent callers of ApiComponentToken *)

\* number of calls the goroutines make together
MaxRaceCalls == 3

\* the client the goroutines share
RaceApp == "wxA"
\* the platform answers the mint POST of call n of goroutine p with a new token
RaceMintResponses(p, n) == MintResponses(10 * p + n)

\* a SetEx that does not replace a record already held
mintWrite_KeepFirst(st, app, componentToken, t) ==
  IF CacheExists(st, ComponentTokenCacheKeyPrefix \o app) THEN st
  ELSE CacheSetEx(st, ComponentTokenCacheKeyPrefix \o app, componentToken, CacheTtlSeconds, t, TRUE)
\* the SetEx of getRawApiComponentToken (line 268)
mintWrite(st, app, componentToken, t) ==
  CacheSetEx(st, ComponentTokenCacheKeyPrefix \o app, componentToken, CacheTtlSeconds, t, TRUE)

\* goroutine p moves to pc with the fields of f changed
RaceStep(p, f) ==
  /\ race' = [race EXCEPT !.proc[p] = f]
  /\ UNCHANGED <<store, now, last>>
Returns(q, out) == [q EXCEPT !.pc = "done", !.out = out]

\* the calls made so far
RaceCalls == race.proc[1].n + race.proc[2].n

\* line 224: the call starts with Cache.Exists; a missing record sends it to the mint
RaceExists(p) ==
  /\ race.proc[p].pc \in {"idle", "done"}
  /\ RaceCalls < MaxRaceCalls
  /\ LET q == [NoProc EXCEPT !.n = race.proc[p].n + 1, !.w0 = Len(race.writes)]
     IN IF CacheExists(store, ComponentTokenCacheKeyPrefix \o RaceApp)
        THEN RaceStep(p, [q EXCEPT !.pc = "get"])
        ELSE RaceStep(p, [q EXCEPT !.pc = "ticket", !.obs = "missing"])

\* lines 233-247: Cache.Get and the staleness test on the record read
RaceGet(p) ==
  /\ race.proc[p].pc = "get"
  /\ LET q == [race.proc[p] EXCEPT !.w0 = Len(race.writes)]
         Then(resp, componentToken) ==
           IF resp.err # NoErr THEN RaceStep(p, Returns(q, Out("", resp.err)))
           ELSE IF ~IsPresent(componentToken, "expires_in") THEN RaceStep(p, Returns(q, Panic))
           ELSE IF IsStale(now, componentToken["expires_in"]) THEN RaceStep(p, [q EXCEPT !.pc = "ticket", !.obs = "stale"])
           ELSE IF IsString(componentToken, "component_access_token")
                THEN RaceStep(p, Returns([q EXCEPT !.obs = "fresh"], Out(componentToken["component_access_token"], NoErr)))
                ELSE RaceStep(p, Returns([q EXCEPT !.obs = "fresh"], Panic))
     IN Then(CacheGet(store, ComponentTokenCacheKeyPrefix \o RaceApp),
             JsonUnmarshalBytes(CacheGet(store, ComponentTokenCacheKeyPrefix \o RaceApp).bytes))

\* line 255: getRawApiComponentToken reads the ticket
RaceTicket(p) ==
  /\ race.proc[p].pc = "ticket"
  /\ LET Then(ticket) ==
           IF ticket.panic THEN RaceStep(p, Returns(race.proc[p], Panic))
           ELSE RaceStep(p, [race.proc[p] EXCEPT !.pc = "post", !.ticket = ticket.val])
     IN Then(getComponentTicket(store, RaceApp))

\* lines 257-266: the mint POST and what the transport answers
RacePost(p) ==
  /\ race.proc[p].pc = "post"
  /\ \E r \in RaceMintResponses(p, race.proc[p].n) :
       LET q == [race.proc[p] EXCEPT !.posted = TRUE]
       IN IF PostFailed(r) THEN RaceStep(p, Returns(q, Out("", r.err)))
          ELSE IF r.status # StatusOK THEN RaceStep(p, Returns(q, Panic))
          ELSE RaceStep(p, [q EXCEPT !.pc = "setex", !.body = JsonUnmarshalBytes(r.body)])

\* lines 267-269 and 231/245: the expiry is stamped, the record is written and
\* the token of the answer is returned
RaceSetEx(p) ==
  /\ race.proc[p].pc = "setex"
  /\ LET Then(componentToken) ==
           /\ store' = mintWrite(store, RaceApp, componentToken, now)
           /\ race' = [race EXCEPT
                !.writes = Append(@, [p |-> p, val |-> componentToken]),
                !.proc[p] = Returns([@ EXCEPT !.wrote = TRUE],
                              IF IsString(componentToken, "component_access_token")
                              THEN Out(componentToken["component_access_token"], NoErr) ELSE Panic)]
           /\ UNCHANGED <<now, last>>
     IN Then(MapSet(race.proc[p].body, "expires_in", now + ExpiresInSeconds))

NextRace ==
  \/ \E p \in Procs : RaceExists(p)
  \/ \E p \in Procs : RaceGet(p)
  \/ \E p \in Procs : RaceTicket(p)
  \/ \E p \in Procs : RacePost(p)
  \/ \E p \in Procs : RaceSetEx(p)
  \/ Environment

SpecRace == Init /\ [][NextRace]_vars

\* goroutine p has returned from a call in which it found the record missing or stale
MintedInRace(p) == race.proc[p].pc = "done" /\ race.proc[p].obs \in {"missing", "stale"}

\* C11: the check and the mint of ApiComponentToken are not one atomic step.  A
\* goroutine that found the record missing or stale goes on to its own mint POST
\* and its own SetEx whatever another goroutine has written since, so two
\* goroutines that both observe staleness each issue a POST and each write; the
\* store then holds the record of the later write.
C11_LastWriterWins ==
  /\ \A p \in Procs :
       /\ race.proc[p].pc \in {"ticket", "post", "setex"} => race.proc[p].obs \in {"missing", "stale"}
       /\ MintedInRace(p) => race.proc[p].posted
       /\ race.proc[p].wrote => (race.proc[p].posted /\ \E i \in DOMAIN race.writes : race.writes[i].p = p /\ i > race.proc[p].w0)
  /\ (race.writes # <<>> /\ HasRec(store, CompKey(RaceApp))) =>
       RecOf(store, CompKey(RaceApp)) = race.writes[Len(race.writes)].val

\* both goroutines found the same stale record, each issued its POST and wrote
\* its record, and the store holds the later of the two
C11_Witness ==
  /\ \A p \in Procs : MintedInRace(p) /\ race.proc[p].obs = "stale" /\ race.proc[p].posted /\ race.proc[p].wrote
  /\ race.proc[1].w0 = race.proc[2].w0
  /\ Len(race.writes) = race.proc[1].w0 + 2
  /\ race.writes[Len(race.writes)].p # race.writes[Len(race.writes) - 1].p
  /\ race.writes[Len(race.writes)].val # race.writes[Len(race.writes) - 1].val
  /\ HasRec(store, CompKey(RaceApp))
  /\ RecOf(store, CompKey(RaceApp)) = race.writes[Len(race.writes)].val

-----------------------------------------------------------------------------
(* The resolvers over a store that can refuse a write *)

\* SetEx succeeds or fails
StoreMayFail == BOOLEAN

NextStore ==
  \/ CallApiComponentToken(MaxCalls, StoreMayFail)
  \/ CallRefreshToken(MaxCalls, StoreMayFail)
  \/ CallApiQueryAuth(MaxCalls, StoreMayFail)
  \/ Environment

SpecStore == Init /\ [][NextStore]_vars

AuthorizerTokenFields == {"authorizer_access_token", "authorizer_refresh_token", "expires_in"}

\* C12: after a RefreshToken that returned a nil error, the record stored under
\* the authorizer key is the record cached before the call with
\* authorizer_access_token and authorizer_refresh_token replaced by the values
\* of the response and expires_in set to now + 7200; every other field is as it
\* was, and the key expires 7200 seconds after the call.
C12_RefreshMergesRecord ==
  (last.op = "RefreshToken" /\ Resolved(last.out)) =>
    /\ HasRec(last.pre, AuthKey(last.app))
    /\ HasRec(store, AuthKey(last.app))
    /\ store[AuthKey(last.app)].deadline = last.t + CacheTtlSeconds
    /\ DOMAIN RecOf(store, AuthKey(last.app)) = DOMAIN RecOf(last.pre, AuthKey(last.app)) \cup AuthorizerTokenFields
    /\ RecOf(store, AuthKey(last.app))["expires_in"] = last.t + ExpiresInSeconds
    /\ \A f \in AuthorizerTokenFields \ {"expires_in"} :
         RecOf(store, AuthKey(last.app))[f] = Lookup(JsonUnmarshalBytes(LastPost(last).resp.body), f)
    /\ \A f \in DOMAIN RecOf(last.pre, AuthKey(last.app)) \ AuthorizerTokenFields :
         RecOf(store, AuthKey(last.app))[f] = RecOf(last.pre, AuthKey(last.app))[f]

\* the resolver found no record of its credential, or one with expires_in < now
MissingOrExpired(l) == ~HasRec(l.pre, OwnKey(l)) \/ ExpiryOf(l.pre, OwnKey(l)) < l.t

\* C13: a missing record and an expired record are handled alike:
\* ApiComponentToken issues its mint POST and ApiQueryAuth does not answer from
\* the cache.  RefreshToken with no cached record and a non-empty refresh token
\* still refreshes (with its POSTs answered 200: one POST to the refresh
\* endpoint and a persisted record); with no cached record and an empty refresh
\* token it returns an error without any POST.
C13_MissingHandledAsExpired ==
  /\ (last.op = "ApiComponentToken" /\ MissingOrExpired(last)) => NPosts(last.posts, MintEp) = 1
  /\ (last.op = "ApiQueryAuth" /\ MissingOrExpired(last)) => ~(last.posts = <<>> /\ Resolved(last.out))
  /\ (last.op = "RefreshToken" /\ ~HasRec(last.pre, AuthKey(last.app))) =>
       IF last.arg[2] # ""
       THEN (\A i \in DOMAIN last.posts : last.posts[i].resp.err = NoErr /\ last.posts[i].resp.status = StatusOK) =>
              (NPosts(last.posts, RefreshEp) = 1 /\ HasRec(store, AuthKey(last.app)))
       ELSE ~last.out.panic /\ last.out.err # NoErr /\ last.posts = <<>>

-----------------------------------------------------------------------------
(* Two clients on one store *)

\* the method op of the client app, called with arg at time t
Run(op, st, app, t, arg, env) ==
  CASE op = "ApiComponentToken" -> ApiComponentToken(st, app, t, env)
    [] op = "GetToken" -> GetToken(st, app)
    [] op = "RefreshToken" -> RefreshToken(st, app, t, arg[1], arg[2], env)
    [] op = "ApiCreatePreAuthCode" -> ApiCreatePreAuthCode(st, app, t, env)
    [] op = "GetAuthUrl" -> GetAuthUrl(st, app, t, arg[1], arg[2], env)
    [] op = "ApiQueryAuth" -> ApiQueryAuth(st, app, t, arg, env)
    [] op = "ApiAuthorizerInfo" -> ApiAuthorizerInfo(st, app, t, arg, env)
    [] op = "FastRegisterWeapp" -> FastRegisterWeapp(st, app, t, arg, env)
    [] op = "ModifyDomain" -> ModifyDomain(st, app, t, arg, env)
    [] op = "CommitCode" -> CommitCode(st, app, t, arg, env)
    [] op = "SubmitAudit" -> SubmitAudit(st, app, t, arg, env)
    [] op = "UndoCodeAudit" -> UndoCodeAudit(st, app, t, arg, env)
    [] op = "Release" -> Release(st, app, t, arg, env)
    [] op = "BindTester" -> BindTester(st, app, t, arg, env)
    [] op = "GetWxaCode" -> GetWxaCode(st, app, t, arg, env)

\* the arguments and the answers of the platform for each method, during call n
ArgsOf(op) ==
  CASE op \in {"ApiComponentToken", "GetToken", "ApiCreatePreAuthCode"} -> {NoArg}
    [] op = "RefreshToken" -> {<<tn, rt>> : tn \in Tenants, rt \in RefreshArgs}
    [] op = "GetAuthUrl" -> RedirectUris \X AuthTypes
    [] op = "ApiQueryAuth" -> Codes
    [] op = "ApiAuthorizerInfo" -> Tenants
    [] op = "BindTester" -> WechatIds
    [] OTHER -> {Data}
TenantOf(arg) == CHOOSE tn \in Tenants : arg = CodeOf(tn)
OwnResponses(op, arg, n) ==
  CASE op \in {"ApiComponentToken", "GetToken"} -> {NetErr}
    [] op = "RefreshToken" -> RefreshResponses(arg[1], n)
    [] op \in {"ApiCreatePreAuthCode", "GetAuthUrl"} -> PreAuthResponses(n)
    [] op = "ApiQueryAuth" -> QueryAuthResponses(TenantOf(arg), n)
    [] op = "ApiAuthorizerInfo" -> AuthorizerInfoResponses
    [] op = "GetWxaCode" -> WxaCodeResponses
    [] OTHER -> BusinessResponses

Lifecycle == {"ApiComponentToken", "GetToken", "RefreshToken", "ApiCreatePreAuthCode", "GetAuthUrl", "ApiQueryAuth", "ApiAuthorizerInfo"}

\* the client app calls one of its methods, once the call before has been
\* observed; the clock stands still, since no key depends on the time
ClientCall(app) ==
  /\ last.op = "none"
  /\ \E op \in Lifecycle \cup Gateways : \E arg \in ArgsOf(op) :
       \E env \in Envs(StoreOk, last.seq + 1, OwnResponses(op, arg, last.seq + 1), StoreOk) :
         Call(MaxCalls, op, app, arg, env, Run(op, store, app, now, arg, env))

\* the observation of the call that has returned ends
Forget ==
  /\ last.op # "none"
  /\ last' = Idle(last)
  /\ UNCHANGED <<store, now, race>>

NextClients ==
  \/ ClientCall("wxA")
  \/ ClientCall("wxB")
  \/ Forget
  \/ PushTicketTo(Clients)

SpecClients == Init /\ [][NextClients]_vars

\* the keys of the client app, and the store as it looks without the others
KeysOf(app) == {p \o app : p \in Prefixes}
Alone(st, app) == [k \in Keys |-> IF k \in KeysOf(app) THEN st[k] ELSE NoRec]
\* what the collaborators answered during the call
EnvOf(l) ==
  [mint |-> IF PostsTo(l.posts, MintEp) = {} THEN NetErr ELSE l.posts[CHOOSE i \in PostsTo(l.posts, MintEp) : TRUE].resp,
   mintSetOk |-> TRUE,
   own |-> IF l.posts = <<>> \/ LastPost(l).ep = MintEp THEN NetErr ELSE LastPost(l).resp,
   ownSetOk |-> TRUE]
\* the call of l, made again on the store st
Again(l, st) == Run(l.op, st, l.app, l.t, l.arg, EnvOf(l))

\* C14: the clients are isolated.  A call of a client writes only keys built
\* from its own AppId and leaves every other key as it was, and it reads only
\* its own keys: made on the store without the records of the other client, the
\* same call issues the same POSTs, attempts the same writes, returns the same
\* result and leaves the same records under its own keys.
C14_ClientsIsolated ==
  last.op # "none" =>
    /\ \A i \in DOMAIN last.sets : last.sets[i].key \in KeysOf(last.app)
    /\ \A k \in Keys \ KeysOf(last.app) : store[k] = last.pre[k]
    /\ Again(last, Alone(last.pre, last.app)).out = last.out
    /\ Again(last, Alone(last.pre, last.app)).posts = last.posts
    /\ Again(last, Alone(last.pre, last.app)).sets = last.sets
    /\ \A k \in KeysOf(last.app) : Again(last, Alone(last.pre, last.app)).st[k] = store[k]

\* a call of wxB that finds records of wxA in the store, mints its own token
\* and leaves the records of wxA alone
C14_Witness ==
  /\ last.op = "ApiQueryAuth"
  /\ last.app = "wxB"
  /\ HasRec(last.pre, CompKey("wxA"))
  /\ HasRec(last.pre, AuthKey("wxA"))
  /\ ~HasRec(last.pre, AuthKey("wxB"))
  /\ NPosts(last.posts, MintEp) = 1
  /\ NPosts(last.posts, ExchangeEp) = 1
  /\ Resolved(last.out)
  /\ HasRec(store, AuthKey("wxB"))
  /\ store[AuthKey("wxA")] = last.pre[AuthKey("wxA")]
  /\ store[CompKey("wxA")] = last.pre[CompKey("wxA")]

-----------------------------------------------------------------------------
(* Mint without a ticket, store failures, order of the cascade *)

\* the platform rejected the mint: a status other than 200, or a 200 answer
\* that holds no component_access_token
MintRejected(r) ==
  /\ r.err = NoErr
  /\ r.status # StatusOK \/ ~IsString(JsonUnmarshalBytes(r.body), "component_access_token")

\* C15: with no verification ticket in the store ApiComponentToken posts its
\* mint with the empty string as ticket, and when the platform rejects that mint
\* it returns a non-nil error: it neither aborts nor reports a token.
C15_RejectedMintIsAnError ==
  (/\ last.op = "ApiComponentToken"
   /\ ~HasRec(last.pre, TicketKey(last.app))
   /\ last.posts # <<>>) =>
     /\ last.posts[1].dst["component_verify_ticket"] = ""
     /\ MintRejected(last.posts[1].resp) => (~last.out.panic /\ last.out.err # NoErr /\ last.out.val = "")

\* C16: a resolver one of whose SetEx calls failed returns a non-nil error; it
\* does not report success with a token that was not persisted.
C16_StoreFailurePropagated ==
  (/\ last.op \in Resolvers
   /\ \E i \in DOMAIN last.sets : ~last.sets[i].ok) =>
     /\ ~last.out.panic
     /\ last.out.err # NoErr

\* every method of one client, with the clock and the store moving between calls
NextCascade ==
  \/ ClientCall("wxA")
  \/ Forget
  \/ Environment

SpecCascade == Init /\ [][NextCascade]_vars

\* the methods that resolve the platform token before their own POST
Cascading == (Lifecycle \cup Gateways) \ {"ApiComponentToken", "GetToken", "BindTester", "GetWxaCode"}
\* the POSTs of a call to the endpoint of its own operation
OwnPosts(l) == {i \in DOMAIN l.posts : l.posts[i].ep # MintEp}
\* the platform token the call resolved, nil when the resolution failed
ResolvedToken(l) == IF NPosts(l.posts, MintEp) = 0 THEN CachedToken(l) ELSE MintedToken(l)

\* C17: in a method that needs the platform token the resolution comes first:
\* the mint POST, if any, precedes the method's own POST, which carries the
\* resolved token; when the resolution fails the own POST is not issued; and a
\* call issues at most one POST to its own endpoint and at most one mint POST.
C17_CascadeOrder ==
  last.op \in Cascading =>
    /\ Cardinality(OwnPosts(last)) <= 1
    /\ NPosts(last.posts, MintEp) <= 1
    /\ \A i \in PostsTo(last.posts, MintEp) : i = 1 /\ last.posts[i].resp = last.posts[1].resp
    /\ \A i \in OwnPosts(last) :
         /\ i = Len(last.posts)
         /\ ResolvedToken(last) # Nil
         /\ last.posts[i].tok = ResolvedToken(last)
    /\ (NPosts(last.posts, MintEp) = 1 /\ (last.posts[1].resp.err # NoErr \/ MintRejected(last.posts[1].resp))) =>
         /\ OwnPosts(last) = {}
         /\ (Resolved(last.out) => last.op = "GetAuthUrl")

\* a business call that first minted the platform token and then posted with it
C17_Witness ==
  /\ last.op = "ModifyDomain"
  /\ Len(last.posts) = 2
  /\ last.posts[1].ep = MintEp
  /\ last.posts[2].ep = "ModifyDomain"
  /\ last.posts[2].tok = MintedToken(last)
  /\ MintedToken(last) # Nil
  /\ Resolved(last.out)

\* C18: every POST a gateway call issues besides the mint goes to the endpoint
\* of that same operation; UndoCodeAudit never posts to the endpoint of
\* SubmitAudit.
C18_PostsToOwnEndpoint ==
  last.op \in Gateways =>
    \A i \in OwnPosts(last) : last.posts[i].ep = last.op

\* a well-formed platform record: a token and the deadline of the write + 7200
WellFormed(st, k) ==
  /\ IsString(RecOf(st, k), "component_access_token")
  /\ IsPresent(RecOf(st, k), "expires_in")
  /\ ExpiryOf(st, k) = (st[k].deadline - CacheTtlSeconds) + ExpiresInSeconds

\* C19: every record under the platform-token key holds a
\* component_access_token and expires_in = write time + 7200, and a call of
\* ApiComponentToken never finds a record without token under that key.
C19_PlatformRecordHoldsToken ==
  /\ \A app \in AppIds : HasRec(store, CompKey(app)) => WellFormed(store, CompKey(app))
  /\ (last.op = "ApiComponentToken" /\ HasRec(last.pre, CompKey(last.app))) =>
       IsString(RecOf(last.pre, CompKey(last.app)), "component_access_token")

(***************************************************************************)
(* Several tenants of one integrator                                       *)
(***************************************************************************)

\* the tokens the platform can have issued to a tenant
AccessTokensOf(tenant) == {AccessTokenOf(tenant, n) : n \in 1..(MaxCalls + MaxTokenCalls)}
RefreshTokensOf(tenant) == {RefreshTokenOf(tenant, n) : n \in 1..(MaxCalls + MaxTokenCalls)}
\* the tokens of the record are those of the tenant the record names
OneTenant(rec) ==
  IsString(rec, "authorizer_appid") =>
    /\ Lookup(rec, "authorizer_access_token") \in AccessTokensOf(rec["authorizer_appid"])
    /\ Lookup(rec, "authorizer_refresh_token") \in RefreshTokensOf(rec["authorizer_appid"])

\* C20: the access and refresh token of the authorizer record belong to the
\* tenant whose id the record holds, and ApiQueryAuth with the code of a tenant
\* returns no record of another tenant.
C20_RecordOfOneTenant ==
  /\ \A app \in AppIds : HasRec(store, AuthKey(app)) => OneTenant(RecOf(store, AuthKey(app)))
  /\ (last.op = "ApiQueryAuth" /\ Resolved(last.out)) =>
       Lookup(last.out.val, "authorizer_appid") \in {Nil, TenantOf(last.arg)}

====
